---- MODULE Spec2Model ----
(***************************************************************************)
(* The delivery queue of src/emailer.py (class EmailEngine): queue_email,  *)
(* process_queue, _send_email and the two JSON files they load and save.   *)
(*                                                                         *)
(* Time is in seconds since an arbitrary midnight.  A datetime is stored   *)
(* the way the code stores it, as its isoformat() text, modelled as the    *)
(* pair <<date, second of the day>>; fromisoformat() parses it back.        *)
(***************************************************************************)
EXTENDS Integers, Sequences, FiniteSets, TLC

VARIABLES
    clock,        \* datetime.now(), in seconds
    smtp_user,    \* EmailEngine.smtp_config['user'] ("" = mock transport)
    queue_db,     \* contents of EMAIL_QUEUE_DB  (email_queue.json)
    history_db,   \* contents of EMAIL_HISTORY_DB (email_history.json)
    sweep,        \* per process_queue invocation: its locals and position
    created,      \* history variable: number of queue_email calls so far
    ledger,       \* history variable: per created message, what was done to it
    lastSend,     \* history variable: the most recent _send_email call
    overlaps,     \* history variable: process_queue calls begun during another
    response,     \* main.send_email: the result of the latest request
    prospects_db, \* contents of PROSPECTS_DB (prospects.json)
    request,      \* per web worker: the add_prospect call it is serving
    spintax,      \* EmailEngine.process_spintax: its arguments and locals
    opening,      \* generate_trustbuild_opening: its arguments and result
    combined,     \* TrustStoryBuilder's sequence calls: arguments and locals
    scoring,      \* src/scoring.py: the arguments and result of the latest call
    swept         \* the cron job has completed its run for the current hour

vars == <<clock, smtp_user, queue_db, history_db, sweep, created, ledger, lastSend,
          overlaps, response, prospects_db, request, spintax, opening, combined,
          scoring, swept>>

\* the state of the components other than the delivery queue
elsewhere == <<prospects_db, request, spintax, opening, combined, scoring>>

-----------------------------------------------------------------------------
(* Bounds of the model *)

MaxEmails == 2
MaxHours == 3
MaxOverlaps == 1

(* Program constants *)

MAX_ATTEMPTS == 3
RETRY_DELAY_HOURS == 1
MIN_JITTER_MINUTES == 5
MAX_JITTER_MINUTES == 30
MIN_PAUSE_SECONDS == 45
MAX_PAUSE_SECONDS == 90

Tenants == {"u1", "u2"}
Prospects == {"p1"}
Sweepers == {"s1", "s2"}      \* processes that run process_email_queue
CronJob == "s1"

\* random.randint(5, 30): the two ends of the range
JitterChoices == {MIN_JITTER_MINUTES, MAX_JITTER_MINUTES}
\* "random.uniform(44, 90)" instead of "random.uniform(45, 90)"
PauseChoices_Short == {MIN_PAUSE_SECONDS - 1, MAX_PAUSE_SECONDS}

\* random.uniform(45, 90): the two ends of the range
PauseChoices == {MIN_PAUSE_SECONDS, MAX_PAUSE_SECONDS}

-----------------------------------------------------------------------------
(* datetime *)

isoformat(t) == <<t \div 86400, t % 86400>>
fromisoformat(s) == s[1] * 86400 + s[2]
timedelta_minutes(m) == m * 60
timedelta_hours(h) == h * 3600
None == <<>>

\* the cron job runs on the hour: the clock is observed at whole hours, and
\* in between wherever a sweep's pauses have taken it
CronPeriod == timedelta_hours(1)

-----------------------------------------------------------------------------
(* The JSON "databases": a dict user_id -> list, in insertion order *)

EmptyDb == [keys |-> <<>>, rows |-> [u \in Tenants |-> <<>>]]

DbHas(db, u) == \E k \in 1..Len(db.keys) : db.keys[k] = u

DbAppend(db, u, e) ==
    [keys |-> IF DbHas(db, u) THEN db.keys ELSE Append(db.keys, u),
     rows |-> [db.rows EXCEPT ![u] = Append(@, e)]]

\* every entry of a database, whatever its tenant
DbEntries(db) ==
    UNION {{db.rows[u][i] : i \in 1..Len(db.rows[u])} : u \in Tenants}

\* the order in which "for user_id, user_queue in queue.items(): for email in
\* user_queue" visits the entries: <<user_id, index>> pairs
RECURSIVE Items(_, _)
Items(db, k) ==
    IF k > Len(db.keys) THEN <<>>
    ELSE LET u == db.keys[k]
         IN [i \in 1..Len(db.rows[u]) |-> <<u, i>>] \o Items(db, k + 1)

-----------------------------------------------------------------------------
(* queue_email *)

\* hashlib.md5(f"{user_id}{prospect_id}{now.isoformat()}").hexdigest()[:8]:
\* a digest of the three parts (user and prospect ids have a fixed width,
\* so the concatenation is unambiguous); equal inputs give equal ids
EmailId(user_id, prospect_id, now) == <<user_id, prospect_id, isoformat(now)>>

\* the jitter taken as seconds, timedelta(seconds=...), instead of minutes
NewEmailEntry_JitterSeconds(user_id, prospect_id, now, jitter, n) ==
    [id            |-> EmailId(user_id, prospect_id, now),
     prospect_id   |-> prospect_id,
     queued_at     |-> isoformat(now),
     status        |-> "queued",
     attempts      |-> 0,
     scheduled_for |-> isoformat(now + jitter),
     sent_at       |-> None,
     seq           |-> n]

NewEmailEntry(user_id, prospect_id, now, jitter, n) ==
    [id            |-> EmailId(user_id, prospect_id, now),
     prospect_id   |-> prospect_id,
     queued_at     |-> isoformat(now),
     status        |-> "queued",
     attempts      |-> 0,
     scheduled_for |-> isoformat(now + timedelta_minutes(jitter)),
     sent_at       |-> None,
     seq           |-> n]      \* history field: which call created the entry

QueueEmail(user_id, prospect_id, jitter) ==
    /\ created < MaxEmails
    /\ LET entry == NewEmailEntry(user_id, prospect_id, clock, jitter, created + 1)
       IN /\ queue_db' = DbAppend(queue_db, user_id, entry)
          /\ ledger' = Append(ledger, [user_id |-> user_id,
                                       status |-> entry.status,
                                       attempts |-> entry.attempts,
                                       ok |-> 0, fail |-> 0])
    /\ created' = created + 1
    /\ UNCHANGED <<clock, smtp_user, history_db, sweep, lastSend, overlaps, elsewhere, swept>>

-----------------------------------------------------------------------------
(* process_queue *)

NoEmail == NewEmailEntry("u1", "p1", 0, 0, 0)
NoSend == [seq |-> 0, at |-> 0, ok |-> FALSE, current_time |-> 0,
           before |-> NoEmail, after |-> NoEmail]

IdleSweep == [pc |-> "idle", queue |-> EmptyDb, history |-> EmptyDb,
              current_time |-> 0, pos |-> 0, emails_sent |-> 0]

AllIdle == \A s \in Sweepers : sweep[s].pc = "idle"

\* lines 281-285: load both files, read the clock once
Load(s) ==
    /\ sweep[s].pc = "idle"
    /\ sweep' = [sweep EXCEPT ![s] = [pc |-> "loop", queue |-> queue_db,
                                      history |-> history_db,
                                      current_time |-> clock, pos |-> 1,
                                      emails_sent |-> 0]]
    /\ overlaps' = IF AllIdle THEN overlaps ELSE overlaps + 1
    /\ UNCHANGED <<clock, smtp_user, queue_db, history_db, created, ledger, lastSend, response, elsewhere, swept>>

\* "scheduled_time < current_time" instead of "<="
IsDue_Strict(email, current_time) ==
    /\ email.status = "queued"
    /\ fromisoformat(email.scheduled_for) < current_time

\* lines 290-294: the email is attempted in this sweep
IsDue(email, current_time) ==
    /\ email.status = "queued"
    /\ fromisoformat(email.scheduled_for) <= current_time

\* lines 299-300
MarkSent(email, current_time) ==
    [email EXCEPT !.status = "sent", !.sent_at = isoformat(current_time)]

\* "attempts > 3" instead of "attempts >= 3"
MarkFailedAttempt_Late(email, current_time) ==
    LET attempts == email.attempts + 1
    IN IF attempts > MAX_ATTEMPTS
       THEN [email EXCEPT !.attempts = attempts, !.status = "failed"]
       ELSE [email EXCEPT !.attempts = attempts,
                          !.scheduled_for =
                              isoformat(current_time + timedelta_hours(RETRY_DELAY_HOURS))]

\* "attempts = 1" instead of "attempts += 1"
MarkFailedAttempt_Assign(email, current_time) ==
    LET attempts == 1
    IN IF attempts >= MAX_ATTEMPTS
       THEN [email EXCEPT !.attempts = attempts, !.status = "failed"]
       ELSE [email EXCEPT !.attempts = attempts,
                          !.scheduled_for =
                              isoformat(current_time + timedelta_hours(RETRY_DELAY_HOURS))]

\* "attempts += 2" instead of "attempts += 1"
MarkFailedAttempt_Twice(email, current_time) ==
    LET attempts == email.attempts + 2
    IN IF attempts >= MAX_ATTEMPTS
       THEN [email EXCEPT !.attempts = attempts, !.status = "failed"]
       ELSE [email EXCEPT !.attempts = attempts,
                          !.scheduled_for =
                              isoformat(current_time + timedelta_hours(RETRY_DELAY_HOURS))]

\* lines 311-318
MarkFailedAttempt(email, current_time) ==
    LET attempts == email.attempts + 1
    IN IF attempts >= MAX_ATTEMPTS
       THEN [email EXCEPT !.attempts = attempts, !.status = "failed"]
       ELSE [email EXCEPT !.attempts = attempts,
                          !.scheduled_for =
                              isoformat(current_time + timedelta_hours(RETRY_DELAY_HOURS))]

\* lines 332-363: without a configured SMTP user the send is a mock that
\* always succeeds; otherwise the SMTP exchange succeeds or raises
SendOutcomes == IF smtp_user = "" THEN {TRUE} ELSE {TRUE, FALSE}

Cursor(s) == Items(sweep[s].queue, 1)[sweep[s].pos]
CursorEmail(s) == sweep[s].queue.rows[Cursor(s)[1]][Cursor(s)[2]]
InLoop(s) == /\ sweep[s].pc = "loop"
             /\ sweep[s].pos <= Len(Items(sweep[s].queue, 1))

SetCursorEmail(s, e) ==
    [sweep[s].queue EXCEPT !.rows[Cursor(s)[1]][Cursor(s)[2]] = e]

Record(email, after, ok, s) ==
    /\ ledger' = [ledger EXCEPT ![email.seq] =
                     [user_id |-> @.user_id,
                      status |-> after.status, attempts |-> after.attempts,
                      ok |-> IF ok THEN @.ok + 1 ELSE @.ok,
                      fail |-> IF ok THEN @.fail ELSE @.fail + 1]]
    /\ lastSend' = [seq |-> email.seq, at |-> clock, ok |-> ok,
                    current_time |-> sweep[s].current_time,
                    before |-> email, after |-> after]

\* lines 290-294, the email is passed over
VisitSkip(s) ==
    /\ InLoop(s)
    /\ ~IsDue(CursorEmail(s), sweep[s].current_time)
    /\ sweep' = [sweep EXCEPT ![s].pos = @ + 1]
    /\ UNCHANGED <<clock, smtp_user, queue_db, history_db, created, ledger, lastSend, overlaps, response, elsewhere, swept>>

\* lines 296-309: the send succeeded; time.sleep(random.uniform(45, 90))
SendOk(s, pause) ==
    /\ InLoop(s)
    /\ IsDue(CursorEmail(s), sweep[s].current_time)
    /\ TRUE \in SendOutcomes
    /\ LET email == CursorEmail(s)
           sent == MarkSent(email, sweep[s].current_time)
       IN /\ sweep' = [sweep EXCEPT
                ![s].queue = SetCursorEmail(s, sent),
                ![s].history = DbAppend(@, Cursor(s)[1], sent),
                ![s].emails_sent = @ + 1,
                ![s].pos = @ + 1]
          /\ Record(email, sent, TRUE, s)
    /\ clock' = clock + pause
    /\ UNCHANGED <<smtp_user, queue_db, history_db, created, overlaps, response, elsewhere, swept>>

\* the failure ends the loop (an exception escaping _send_email, or a break)
AfterFailure_Abort(s) == Len(Items(sweep[s].queue, 1)) + 1

\* lines 289, 310-318, 361-363: _send_email catches the SMTP error and
\* returns False; the loop goes on to the next email
AfterFailure(s) == sweep[s].pos + 1

\* lines 296, 310-318: the send failed
SendFail(s) ==
    /\ InLoop(s)
    /\ IsDue(CursorEmail(s), sweep[s].current_time)
    /\ FALSE \in SendOutcomes
    /\ LET email == CursorEmail(s)
           failed == MarkFailedAttempt(email, sweep[s].current_time)
       IN /\ sweep' = [sweep EXCEPT
                ![s].queue = SetCursorEmail(s, failed),
                ![s].pos = AfterFailure(s)]
          /\ Record(email, failed, FALSE, s)
    /\ UNCHANGED <<clock, smtp_user, queue_db, history_db, created, overlaps, response, elsewhere, swept>>

\* lines 321-325
Cleanup(db) ==
    [db EXCEPT !.rows = [u \in Tenants |->
        SelectSeq(db.rows[u], LAMBDA e : e.status \notin {"sent", "failed"})]]

\* lines 320-330: prune, save both files, return
Finish(s) ==
    /\ sweep[s].pc = "loop"
    /\ sweep[s].pos > Len(Items(sweep[s].queue, 1))
    /\ queue_db' = Cleanup(sweep[s].queue)
    /\ history_db' = sweep[s].history
    /\ sweep' = [sweep EXCEPT ![s] = IdleSweep]
    /\ lastSend' = NoSend
    /\ UNCHANGED <<clock, smtp_user, created, ledger, overlaps, response, elsewhere>>

-----------------------------------------------------------------------------
(* The wall clock moves on to the next run of the cron job *)

Tick ==
    /\ (clock \div CronPeriod + 1) <= MaxHours
    /\ clock' = (clock \div CronPeriod + 1) * CronPeriod
    /\ UNCHANGED <<smtp_user, queue_db, history_db, sweep, created, ledger, lastSend, overlaps, response, elsewhere>>

-----------------------------------------------------------------------------
(* get_queue_status *)

Count(list, status) == Len(SelectSeq(list, LAMBDA e : e.status = status))

\* lines 365-387 (sent_today, which depends on the date, is left out)
GetQueueStatus(user_id) ==
    [queued     |-> Count(queue_db.rows[user_id], "queued"),
     failed     |-> Count(queue_db.rows[user_id], "failed"),
     total_sent |-> Len(history_db.rows[user_id])]

-----------------------------------------------------------------------------
(* The other components, at rest *)

Workers == {"w1", "w2"}        \* threads of the web application
NoResponse == [success |-> FALSE, error |-> "", spam_score |-> 0]
NoCall == [pc |-> "none"]
IdleRequest == [pc |-> "idle"]
EmptyProspects == [u \in Tenants |-> <<>>]

ElsewhereAtRest ==
    /\ prospects_db = EmptyProspects
    /\ request = [w \in Workers |-> IdleRequest]
    /\ spintax = NoCall
    /\ opening = NoCall
    /\ combined = NoCall
    /\ scoring = NoCall

QueueAtRest ==
    /\ clock = 0
    /\ queue_db = EmptyDb
    /\ history_db = EmptyDb
    /\ sweep = [s \in Sweepers |-> IdleSweep]
    /\ created = 0
    /\ ledger = <<>>
    /\ lastSend = NoSend
    /\ overlaps = 0
    /\ swept = FALSE

-----------------------------------------------------------------------------

Init ==
    /\ clock = 0
    /\ smtp_user \in {"", "mailer"}
    /\ queue_db = EmptyDb
    /\ history_db = EmptyDb
    /\ sweep = [s \in Sweepers |-> IdleSweep]
    /\ created = 0
    /\ ledger = <<>>
    /\ lastSend = NoSend
    /\ overlaps = 0
    /\ swept = FALSE
    /\ response = NoResponse
    /\ ElsewhereAtRest

\* One call at a time: queue_email and process_queue run to completion
Next ==
    \/ AllIdle /\ Tick /\ UNCHANGED swept
    \/ \E u \in Tenants, p \in Prospects, j \in JitterChoices :
           AllIdle /\ QueueEmail(u, p, j) /\ UNCHANGED response
    \/ \E s \in {CronJob} : AllIdle /\ Load(s)
    \/ \E s \in {CronJob} : VisitSkip(s)
    \/ \E s \in {CronJob}, pause \in PauseChoices : SendOk(s, pause)
    \/ \E s \in {CronJob} : SendFail(s)
    \/ \E s \in {CronJob} : Finish(s) /\ UNCHANGED swept

Spec == Init /\ [][Next]_vars

\* The web handlers and the cron job are separate processes with no lock
\* around the files: calls overlap
NextOverlap ==
    \/ AllIdle /\ Tick /\ UNCHANGED swept
    \/ \E u \in Tenants, p \in Prospects, j \in JitterChoices :
           QueueEmail(u, p, j) /\ UNCHANGED response
    \/ \E s \in Sweepers : (AllIdle \/ overlaps < MaxOverlaps) /\ Load(s)
    \/ \E s \in Sweepers : VisitSkip(s)
    \/ \E s \in Sweepers, pause \in PauseChoices : SendOk(s, pause)
    \/ \E s \in Sweepers : SendFail(s)
    \/ \E s \in Sweepers : Finish(s) /\ UNCHANGED swept

SpecOverlap == Init /\ [][NextOverlap]_vars

-----------------------------------------------------------------------------
(* send_email of src/main.py and check_spam_score of src/emailer.py.       *)
(* A subject and a body are modelled by what check_spam_score measures of  *)
(* them.  The score is counted in half points, the unit of its smallest    *)
(* term (0.5), so that it stays an integer.                                *)

SPAM_THRESHOLD == 5

\* short subjects of every kind, and a long plain one
Subjects ==
    {s \in [len : {20, 120}, isupper : BOOLEAN, spam_word : BOOLEAN] :
        s.len > 100 => ~s.isupper /\ ~s.spam_word}

\* a body of `words` words of six characters; the empty body has nothing in it
Bodies ==
    {b \in [words : {0, 10, 60}, caps : {0, 40}, phrases : {0, 3}, links : {0, 4},
            exclamations : {0, 4}, dollars : {0, 3}, unsubscribe : BOOLEAN] :
        /\ b.words = 0 => /\ b.caps = 0 /\ b.phrases = 0 /\ b.links = 0
                          /\ b.exclamations = 0 /\ b.dollars = 0 /\ ~b.unsubscribe
        \* at most one kind of suspicious character in a body
        /\ Cardinality({k \in {"caps", "links", "exclamations", "dollars"} :
                            b[k] > 0}) <= 1}

len(body) == 6 * body.words

Max(a, b) == IF a >= b THEN a ELSE b

\* twice the value returned by check_spam_score; defined for len(body) > 0
check_spam_score(subject, body) ==
    Max(0,
          (IF subject.len > 100 THEN 4 ELSE 0)
        + (IF subject.isupper THEN 6 ELSE 0)
        + (IF subject.spam_word THEN 4 ELSE 0)
        + (IF 10 * body.caps > 3 * len(body) THEN 4 ELSE 0)
        + 3 * body.phrases
        + (IF body.links > 3 THEN 4 ELSE 0)
        + (IF body.exclamations > 3 THEN 2 ELSE 0)
        + (IF body.dollars > 2 THEN 4 ELSE 0)
        - (IF body.unsubscribe THEN 2 ELSE 0)
        - (IF body.words > 50 /\ body.words < 300 THEN 1 ELSE 0))

\* the comparison done on the score rounded down to whole points
Blocked_WholePoints(score) == score \div 2 > SPAM_THRESHOLD

\* main.py line 354: spam_score > 5
Blocked(score) == score > 2 * SPAM_THRESHOLD

\* the JSON answer, and the score computed for the request (0 when the
\* computation did not complete)
Answer(success, error, spam_score) ==
    [success |-> success, error |-> error, spam_score |-> spam_score]

\* main.py lines 339-368
SendEmail(user_id, prospect_id, subject, body, jitter) ==
    IF len(body) = 0
    THEN \* emailer.py line 221 divides by len(body): the request ends in an
         \* unhandled ZeroDivisionError
         /\ response' = Answer(FALSE, "ZeroDivisionError", 0)
         /\ UNCHANGED <<clock, smtp_user, queue_db, history_db, sweep, created,
                        ledger, lastSend, overlaps, elsewhere, swept>>
    ELSE IF Blocked(check_spam_score(subject, body))
    THEN /\ response' = Answer(FALSE, "Spam score too high",
                               check_spam_score(subject, body))
         /\ UNCHANGED <<clock, smtp_user, queue_db, history_db, sweep, created,
                        ledger, lastSend, overlaps, elsewhere, swept>>
    ELSE /\ QueueEmail(user_id, prospect_id, jitter)
         /\ response' = Answer(TRUE, "", check_spam_score(subject, body))

InitGate == QueueAtRest /\ smtp_user = "" /\ response = NoResponse /\ ElsewhereAtRest

NextGate ==
    \E u \in Tenants, p \in Prospects, subject \in Subjects, body \in Bodies,
       j \in JitterChoices : SendEmail(u, p, subject, body, j)

SpecGate == InitGate /\ [][NextGate]_vars

-----------------------------------------------------------------------------
(* add_prospect and delete_prospect of src/users.py.  The web application  *)
(* serves requests on several threads and the functions take no lock, so   *)
(* a second call may load the file before the first one has saved it.      *)

Emails == {"a@x.com", "b@x.com"}

\* users.py lines 157-159: the first 8 hex digits of md5(user_id + email)
ProspectId(user_id, email) == <<user_id, email>>

\* users.py lines 156-161 (added_at does not matter here and is left out)
NewProspect(user_id, email) ==
    [id |-> ProspectId(user_id, email), email |-> email, user_id |-> user_id]

\* users.py line 151
existing_emails(prospects, user_id) ==
    {prospects[user_id][i].email : i \in 1..Len(prospects[user_id])}

\* users.py line 152
IsDuplicate(prospects, user_id, email) == email \in existing_emails(prospects, user_id)

\* users.py line 145: the call has read the file
AddProspectLoad(w, user_id, email) ==
    /\ request[w].pc # "loaded"
    /\ request' = [request EXCEPT ![w] =
           [pc |-> "loaded", user_id |-> user_id, email |-> email,
            prospects |-> prospects_db]]
    /\ UNCHANGED <<clock, smtp_user, queue_db, history_db, sweep, created, ledger,
                   lastSend, overlaps, response, scoring, prospects_db, spintax, opening,
                   combined, swept>>

\* users.py lines 147-165: the check on what was read, the append, the save
AddProspectSave(w) ==
    /\ request[w].pc = "loaded"
    /\ LET r == request[w]
       IN IF IsDuplicate(r.prospects, r.user_id, r.email)
          THEN /\ request' = [request EXCEPT ![w] =
                      [pc |-> "returned", user_id |-> r.user_id,
                       email |-> r.email, result |-> FALSE]]
               /\ UNCHANGED prospects_db
          ELSE /\ prospects_db' = [r.prospects EXCEPT ![r.user_id] =
                      Append(@, NewProspect(r.user_id, r.email))]
               /\ request' = [request EXCEPT ![w] =
                      [pc |-> "returned", user_id |-> r.user_id,
                       email |-> r.email, result |-> TRUE]]
    /\ UNCHANGED <<clock, smtp_user, queue_db, history_db, sweep, created, ledger,
                   lastSend, overlaps, response, scoring, spintax, opening, combined, swept>>

\* users.py lines 176-186
DeleteProspect(w, user_id, prospect_id) ==
    /\ request[w].pc # "loaded"
    /\ prospects_db' = [prospects_db EXCEPT ![user_id] =
           SelectSeq(@, LAMBDA p : p.id # prospect_id)]
    /\ request' = [request EXCEPT ![w] = IdleRequest]
    /\ UNCHANGED <<clock, smtp_user, queue_db, history_db, sweep, created, ledger,
                   lastSend, overlaps, response, scoring, spintax, opening, combined, swept>>

InitProspects ==
    QueueAtRest /\ smtp_user = "" /\ response = NoResponse /\ ElsewhereAtRest

NextProspects ==
    \/ \E w \in Workers, u \in Tenants, e \in Emails : AddProspectLoad(w, u, e)
    \/ \E w \in Workers : AddProspectSave(w)
    \/ \E w \in Workers, u \in Tenants, e \in Emails :
           DeleteProspect(w, u, ProspectId(u, e))

SpecProspects == InitProspects /\ [][NextProspects]_vars

-----------------------------------------------------------------------------
(* process_spintax of src/emailer.py.  A text is a sequence of tokens: the *)
(* three characters the function looks for, "{", "|" and "}", and words,   *)
(* which contain none of them.                                             *)

MaxLen == 4

Words == {"a", "b"}
Braces == {"{", "}"}
Tokens == Braces \cup {"|"} \cup Words

\* "Hi {name}, {glad|happy} to connect"
ScenarioA ==
    <<"Hi ", "{", "name", "}", ", ", "{", "glad", "|", "happy", "}", " to connect">>

\* "{a|{b|a}}"
NestedGroups == <<"{", "a", "|", "{", "b", "|", "a", "}", "}">>

Templates ==
    UNION {[1..n -> Tokens] : n \in 0..MaxLen} \cup {ScenarioA, NestedGroups}

\* a dict of variables, in the order of its items
VariableDicts ==
    { <<>>,
      << <<"name", <<"Alice">>>> >>,
      << <<"a", <<"X">>>> >>,
      << <<"a", <<"{", "b", "}">>>>, <<"b", <<"X">>>> >>,
      << <<"b", <<"X">>>>, <<"a", <<"{", "b", "}">>>> >> }

RECURSIVE str_replace(_, _, _)
\* str.replace(f'{{{key}}}', value): every occurrence, from left to right
str_replace(text, key, value) ==
    IF text = <<>> THEN <<>>
    ELSE IF Len(text) >= 3 /\ SubSeq(text, 1, 3) = <<"{", key, "}">>
         THEN value \o str_replace(SubSeq(text, 4, Len(text)), key, value)
         ELSE <<text[1]>> \o str_replace(Tail(text), key, value)

RECURSIVE ReplaceVariables(_, _)
\* emailer.py lines 102-105: one replace per variable, each on the result
\* of the one before
ReplaceVariables(text, variables) ==
    IF variables = <<>> THEN text
    ELSE ReplaceVariables(str_replace(text, variables[1][1], variables[1][2]),
                          Tail(variables))

RECURSIVE split(_)
\* str.split('|')
split(content) ==
    LET pipes == {k \in 1..Len(content) : content[k] = "|"}
    IN IF pipes = {} THEN <<content>>
       ELSE LET k == CHOOSE p \in pipes : \A q \in pipes : p <= q
            IN <<SubSeq(content, 1, k - 1)>>
                   \o split(SubSeq(content, k + 1, Len(content)))

\* the whole content of the group taken as its only option
replace_spintax_Unsplit(content) == {content}

\* emailer.py lines 108-110: what random.choice can return
replace_spintax(content) == {split(content)[n] : n \in 1..Len(split(content))}

\* emailer.py line 114: where the match of \{([^{}]+\|[^{}]+)\} that starts
\* at i ends, 0 when there is none.  The first brace after i has to be a
\* "}", and between the two there has to be a "|" with something on both
\* sides of it.
MatchEnd(text, i) ==
    LET braces == {j \in (i + 1)..Len(text) : text[j] \in Braces}
    IN IF text[i] # "{" \/ braces = {} THEN 0
       ELSE LET j == CHOOSE b \in braces : \A c \in braces : b <= c
            IN IF text[j] = "}" /\ \E k \in (i + 2)..(j - 2) : text[k] = "|"
               THEN j ELSE 0

RECURSIVE re_sub(_, _)
\* emailer.py line 114: the results of one re.sub, from position i on;
\* matches are taken from left to right and do not overlap
re_sub(text, i) ==
    IF i > Len(text) THEN {<<>>}
    ELSE IF MatchEnd(text, i) # 0
         THEN {option \o rest :
                  option \in replace_spintax(SubSeq(text, i + 1, MatchEnd(text, i) - 1)),
                  rest \in re_sub(text, MatchEnd(text, i) + 1)}
         ELSE {<<text[i]>> \o rest : rest \in re_sub(text, i + 1)}

Contains(text, token) == \E i \in 1..Len(text) : text[i] = token

\* emailer.py line 113
LoopCondition(text) ==
    Contains(text, "{") /\ Contains(text, "|") /\ Contains(text, "}")

HasGroup(text) == \E i \in 1..Len(text) : MatchEnd(text, i) # 0

\* emailer.py lines 100-105: the call, up to the while loop
ProcessSpintax(text, variables) ==
    /\ spintax.pc = "none"
    /\ spintax' = [pc |-> "loop", template |-> text, variables |-> variables,
                   replaced |-> ReplaceVariables(text, variables),
                   text |-> ReplaceVariables(text, variables), passes |-> 0]
    /\ UNCHANGED <<clock, smtp_user, queue_db, history_db, sweep, created, ledger,
                   lastSend, overlaps, response, scoring, prospects_db, request, opening,
                   combined, swept>>

\* emailer.py lines 113-114: one turn of the while loop.  A turn that
\* finds no group leaves the text as it is, and so does every turn after
\* it: the loop never ends.
LoopPass ==
    /\ spintax.pc = "loop"
    /\ LoopCondition(spintax.text)
    /\ IF HasGroup(spintax.text)
       THEN \E result \in re_sub(spintax.text, 1) :
               spintax' = [spintax EXCEPT !.text = result, !.passes = @ + 1]
       ELSE spintax' = [spintax EXCEPT !.pc = "looping forever"]
    /\ UNCHANGED <<clock, smtp_user, queue_db, history_db, sweep, created, ledger,
                   lastSend, overlaps, response, scoring, prospects_db, request, opening,
                   combined, swept>>

\* emailer.py lines 113, 116
ReturnText ==
    /\ spintax.pc = "loop"
    /\ ~LoopCondition(spintax.text)
    /\ spintax' = [spintax EXCEPT !.pc = "returned"]
    /\ UNCHANGED <<clock, smtp_user, queue_db, history_db, sweep, created, ledger,
                   lastSend, overlaps, response, scoring, prospects_db, request, opening,
                   combined, swept>>

InitSpintax ==
    QueueAtRest /\ smtp_user = "" /\ response = NoResponse /\ ElsewhereAtRest

NextSpintax ==
    \/ \E text \in Templates, variables \in VariableDicts :
           ProcessSpintax(text, variables)
    \/ LoopPass
    \/ ReturnText

SpecSpintax == InitSpintax /\ [][NextSpintax]_vars

-----------------------------------------------------------------------------
(* generate_trustbuild_opening of src/trust_story_builder.py.  A text is a *)
(* sequence of pieces; the names put into a template are pieces of their   *)
(* own, and a company name is itself a sequence of pieces.                 *)

Range(list) == {list[i] : i \in 1..Len(list)}

\* the lists find_trust_anchors can return for a category: the shared
\* names, each once, in any order
AnchorLists(names) ==
    {list \in UNION {[1..n -> names] : n \in 0..Cardinality(names)} :
        \A i, j \in 1..Len(list) : list[i] = list[j] => i = j}

Anchors ==
    [company   : AnchorLists({"Acme", "Initech"}),
     school    : AnchorLists({"MIT", "Stanford"}),
     interests : AnchorLists({"sap", "devops"})]

\* prospects with and without a 'company' key; the second company's name
\* contains an outcome phrase
ProspectProfiles ==
    { [name |-> "Ann"],
      [name |-> "Ann", company |-> <<"Globex">>],
      [name |-> "Ann", company |-> <<"lower OpEx", " Inc">>] }

\* prospect.get('company', 'your company')
CompanyOf(prospect) ==
    IF "company" \in DOMAIN prospect THEN prospect.company ELSE <<"your company">>

Intros == {1, 2, 3}

\* lines 138-148: intros[intro], the one random.choice picked
generate_soft_intro(prospect, intro) ==
    CASE intro = 1 -> <<"I've been following ">> \o CompanyOf(prospect)
                          \o <<"'s impressive growth in the enterprise space.">>
      [] intro = 2 -> <<"Your team at ">> \o CompanyOf(prospect)
                          \o <<" has been setting the standard for operational excellence.">>
      [] intro = 3 -> <<"The innovation coming out of ">> \o CompanyOf(prospect)
                          \o <<" caught my attention, particularly around system modernization.">>

\* the school anchor tried before the company anchor
generate_trustbuild_opening_SchoolFirst(anchors, prospect, intro) ==
    IF anchors.school # <<>>
    THEN <<"Fellow ", anchors.school[1], " alum here - ...">>
    ELSE IF anchors.company # <<>>
    THEN <<"I noticed we both have ", anchors.company[1], " in our backgrounds - ...">>
    ELSE IF anchors.interests # <<>>
    THEN <<"I see we share a focus on ", anchors.interests[1], " - ...">>
    ELSE generate_soft_intro(prospect, intro)

\* lines 118-137
generate_trustbuild_opening(anchors, prospect, intro) ==
    IF anchors.company # <<>>
    THEN <<"I noticed we both have ", anchors.company[1], " in our backgrounds - ...">>
    ELSE IF anchors.school # <<>>
    THEN <<"Fellow ", anchors.school[1], " alum here - ...">>
    ELSE IF anchors.interests # <<>>
    THEN <<"I see we share a focus on ", anchors.interests[1], " - ...">>
    ELSE generate_soft_intro(prospect, intro)

GenerateTrustbuildOpening(anchors, prospect, intro) ==
    /\ opening.pc = "none"
    /\ opening' = [pc |-> "returned", anchors |-> anchors, prospect |-> prospect,
                   text |-> generate_trustbuild_opening(anchors, prospect, intro)]
    /\ UNCHANGED <<clock, smtp_user, queue_db, history_db, sweep, created, ledger,
                   lastSend, overlaps, response, scoring, prospects_db, request, spintax,
                   combined, swept>>

InitOpening ==
    QueueAtRest /\ smtp_user = "" /\ response = NoResponse /\ ElsewhereAtRest

NextOpening ==
    \E anchors \in Anchors, prospect \in ProspectProfiles, intro \in Intros :
        GenerateTrustbuildOpening(anchors, prospect, intro)

SpecOpening == InitOpening /\ [][NextOpening]_vars

-----------------------------------------------------------------------------
(* generate_combined_sequence of src/trust_story_builder.py, with the      *)
(* story emails of generate_storybuild_sequence that it rewrites.          *)

story_steps ==
    <<"Hero Introduction", "Hero Challenge", "Guide Appears", "Fork in the Road",
      "Happy Path Example", "Hero's Victory", "Guide's Perspective">>

executive_outcomes ==
    <<"system stability", "faster releases", "lower OpEx", "seamless updates",
      "reduced technical debt", "accelerated time-to-market",
      "improved team velocity", "enhanced quality metrics">>

\* the choices of random.choice(executive_outcomes) that are followed: one
\* phrase that no story mentions, the phrase that two stories mention, and
\* the phrase that a company name can contain
OutcomeChoices == {executive_outcomes[1], executive_outcomes[2], executive_outcomes[3]}

\* anchors with at most one name in each category
CombinedAnchors ==
    [company   : AnchorLists({"Acme"}),
     school    : AnchorLists({"MIT"}),
     interests : AnchorLists({"sap"})]

\* "Hi {name},"
Greeting(prospect) == <<"Hi ", prospect.name, ",">>

Closing == <<"Best regards,">>

\* lines 236-326: the body of the story email of a step, as far as the
\* rewriting looks at it: the greeting, the text (every story names the
\* company; those of steps 2 and 4 say "faster releases"), the closing
StoryBody(step, prospect) ==
    Greeting(prospect)
        \o <<"... ">> \o CompanyOf(prospect) \o <<" ...">>
        \o (IF step \in {2, 4} THEN <<"faster releases">> ELSE <<>>)
        \o Closing \o <<"[Your name]">>

\* lines 192-211
generate_storybuild_sequence(prospect, include_optional_step) ==
    [i \in 1..(IF include_optional_step THEN 7 ELSE 6) |->
        [story_step      |-> i,
         story_step_name |-> story_steps[i],
         body            |-> StoryBody(i, prospect)]]

RECURSIVE text_replace(_, _, _)
\* str.replace(old, new) on a text in pieces
text_replace(text, old, new) ==
    IF Len(text) < Len(old) THEN text
    ELSE IF SubSeq(text, 1, Len(old)) = old
         THEN new \o text_replace(SubSeq(text, Len(old) + 1, Len(text)), old, new)
         ELSE <<text[1]>> \o text_replace(Tail(text), old, new)

\* the phrase is added whether or not the body has it
AlreadyIn_NotLooked(outcome, body) == FALSE

\* line 354: outcome in email['body']
AlreadyIn(outcome, body) == outcome \in Range(body)

\* lines 354-358
AddOutcome(body, outcome) ==
    IF ~AlreadyIn(outcome, body)
    THEN text_replace(body, Closing,
                      <<"The path to ", outcome, " is clear.">> \o Closing)
    ELSE body

\* lines 345-350
AddOpening(body, prospect, text) ==
    text_replace(body, Greeting(prospect), Greeting(prospect) \o text)

\* lines 332-342: the call, up to the loop over the emails
GenerateCombinedSequence(prospect, anchors, include_optional_step) ==
    /\ combined.pc = "none"
    /\ combined' =
           [pc |-> "loop", i |-> 1, prospect |-> prospect, anchors |-> anchors,
            sequence |-> generate_storybuild_sequence(prospect, include_optional_step),
            opening |-> <<>>, chosen |-> <<>>]
    /\ UNCHANGED <<clock, smtp_user, queue_db, history_db, sweep, created, ledger,
                   lastSend, overlaps, response, scoring, prospects_db, request, spintax,
                   opening, swept>>

\* lines 344-362: one email of the loop; intro and outcome are the random
\* choices made for it
EnhanceEmail(intro, outcome) ==
    /\ combined.pc = "loop"
    /\ combined.i <= Len(combined.sequence)
    /\ LET i == combined.i
           text == generate_trustbuild_opening(combined.anchors, combined.prospect, intro)
           body == IF i = 1
                   THEN AddOpening(combined.sequence[i].body, combined.prospect, text)
                   ELSE combined.sequence[i].body
       IN combined' = [combined EXCEPT
              !.sequence[i].body = AddOutcome(body, outcome),
              !.opening = IF i = 1 THEN text ELSE @,
              !.chosen = Append(@, outcome),
              !.i = i + 1]
    /\ UNCHANGED <<clock, smtp_user, queue_db, history_db, sweep, created, ledger,
                   lastSend, overlaps, response, scoring, prospects_db, request, spintax,
                   opening, swept>>

\* line 364
ReturnSequence ==
    /\ combined.pc = "loop"
    /\ combined.i > Len(combined.sequence)
    /\ combined' = [combined EXCEPT !.pc = "returned"]
    /\ UNCHANGED <<clock, smtp_user, queue_db, history_db, sweep, created, ledger,
                   lastSend, overlaps, response, scoring, prospects_db, request, spintax,
                   opening, swept>>

InitCombined ==
    QueueAtRest /\ smtp_user = "" /\ response = NoResponse /\ ElsewhereAtRest

NextCombined ==
    \/ \E prospect \in ProspectProfiles, anchors \in CombinedAnchors,
          include_optional_step \in BOOLEAN :
           GenerateCombinedSequence(prospect, anchors, include_optional_step)
    \/ \E intro \in Intros, outcome \in OutcomeChoices : EnhanceEmail(intro, outcome)
    \/ ReturnSequence

SpecCombined == InitCombined /\ [][NextCombined]_vars

-----------------------------------------------------------------------------
(* regenerate_step of src/trust_story_builder.py *)

\* lines 224-314: the subject of the story email of a step
StorySubject(step, prospect) ==
    CASE step = 1 -> <<prospect.name, ", your QA transformation journey">>
      [] step = 2 -> <<"The challenge facing ">> \o CompanyOf(prospect) \o <<"'s QA">>
      [] step = 3 -> <<"A different path for QA excellence">>
      [] step = 4 -> CompanyOf(prospect) \o <<" at the QA crossroads">>
      [] step = 5 -> <<"What happened when [Similar Company] transformed QA">>
      [] step = 6 -> <<"Imagining ">> \o CompanyOf(prospect) \o <<"'s QA future">>
      [] step = 7 -> <<"A final thought on QA evolution">>

StoryEmail(step, prospect) ==
    [subject |-> StorySubject(step, prospect), body |-> StoryBody(step, prospect)]

\* lines 213-330: emails.get(step, emails[1])
generate_story_email(step, prospect) ==
    IF step \in 1..7 THEN StoryEmail(step, prospect) ELSE StoryEmail(1, prospect)

ValueError == [error |-> "ValueError"]

\* the step number taken as an index of story_steps, which starts at 0
regenerate_step_ZeroBased(step_number, prospect) ==
    IF 0 <= step_number /\ step_number <= 6
    THEN generate_story_email(step_number + 1, prospect)
    ELSE ValueError

\* lines 367-374
regenerate_step(step_number, prospect) ==
    IF 1 <= step_number /\ step_number <= 7
    THEN generate_story_email(step_number, prospect)
    ELSE ValueError

StepNumbers == (-20)..30

RegenerateStep(step_number, prospect) ==
    /\ combined.pc = "none"
    /\ combined' = [pc |-> "regenerated", step_number |-> step_number,
                    prospect |-> prospect,
                    result |-> regenerate_step(step_number, prospect)]
    /\ UNCHANGED <<clock, smtp_user, queue_db, history_db, sweep, created, ledger,
                   lastSend, overlaps, response, scoring, prospects_db, request,
                   spintax, opening, swept>>

InitRegenerate ==
    QueueAtRest /\ smtp_user = "" /\ response = NoResponse /\ ElsewhereAtRest

NextRegenerate ==
    \E step_number \in StepNumbers, prospect \in ProspectProfiles :
        RegenerateStep(step_number, prospect)

SpecRegenerate == InitRegenerate /\ [][NextRegenerate]_vars

-----------------------------------------------------------------------------
(* src/scoring.py.  The sub-scores, which the code computes as floats in   *)
(* 0..1, are counted in ten-thousandths (0.25 is 2500), and a TrustScore,  *)
(* which the code rounds to one decimal, in tenths of a point.             *)

Min(a, b) == IF a <= b THEN a ELSE b

SECONDS_PER_DAY == 86400

NoSignal == [kind |-> "none"]

\* how long before now the signals at hand were stamped, in seconds: in the
\* future, just now, and around every step of the freshness table
SignalAges ==
    {-3600, 0, 86399, 86400, 172799}
        \cup {d * SECONDS_PER_DAY + s : d \in {2, 3, 4, 7, 8, 14, 15, 30, 31, 400},
                                        s \in {0, 43200}}

MatchScores == {0, 5000, 10000}

\* the signals: with a timestamp written by isoformat(), with a timestamp
\* that is no date, and with none ('' is no date either)
Signals ==
    [kind : {"signal"}, timestamp : {"iso"},
     at : {isoformat(clock - age) : age \in SignalAges}, match_score : MatchScores]
      \cup [kind : {"signal"}, timestamp : {"not a date", ""},
            at : {None}, match_score : MatchScores]

\* (datetime.now() - signal_time).days
days_old(signal, now) == (now - fromisoformat(signal.at)) \div SECONDS_PER_DAY

\* the steps of the table taken as strict bounds
calculate_intent_freshness_Strict(signal, now) ==
    IF signal.kind = "none" THEN 2000
    ELSE IF signal.timestamp # "iso" THEN 3000
    ELSE IF days_old(signal, now) < 1 THEN 10000
    ELSE IF days_old(signal, now) < 3 THEN 9000
    ELSE IF days_old(signal, now) < 7 THEN 7000
    ELSE IF days_old(signal, now) < 14 THEN 5000
    ELSE IF days_old(signal, now) < 30 THEN 3000
    ELSE 1000

\* lines 94-120
calculate_intent_freshness(signal, now) ==
    IF signal.kind = "none" THEN 2000
    ELSE IF signal.timestamp # "iso" THEN 3000      \* fromisoformat raises
    ELSE IF days_old(signal, now) <= 1 THEN 10000
    ELSE IF days_old(signal, now) <= 3 THEN 9000
    ELSE IF days_old(signal, now) <= 7 THEN 7000
    ELSE IF days_old(signal, now) <= 14 THEN 5000
    ELSE IF days_old(signal, now) <= 30 THEN 3000
    ELSE 1000

CalculateIntentFreshness(signal) ==
    /\ scoring.pc = "none"
    /\ scoring' = [pc |-> "freshness", signal |-> signal, now |-> clock,
                   result |-> calculate_intent_freshness(signal, clock)]
    /\ UNCHANGED <<clock, smtp_user, queue_db, history_db, sweep, created, ledger,
                   lastSend, overlaps, response, prospects_db, request, spintax,
                   opening, combined, swept>>

\* what the scores look at in a prospect: a role keyword in the title (of
\* those shared with LinkedIn headlines), 'alumni' in the title, a senior
\* role, a free mail domain, a catch-all mailbox
ScoredProspects ==
    { [title_keyword |-> FALSE, alumni |-> FALSE, senior |-> FALSE,
       free_domain |-> FALSE, catch_all |-> FALSE],
      [title_keyword |-> TRUE, alumni |-> TRUE, senior |-> TRUE,
       free_domain |-> TRUE, catch_all |-> FALSE],
      [title_keyword |-> TRUE, alumni |-> FALSE, senior |-> FALSE,
       free_domain |-> TRUE, catch_all |-> TRUE] }

\* linkedin_auth.get_user_profile(user_id): none stored, or a profile with
\* its LinkedIn trust score (0..100) and a role keyword in its headline
LinkedinProfiles ==
    { [stored |-> FALSE],
      [stored |-> TRUE, trust_score |-> 60, headline_keyword |-> TRUE] }

SharedConnections == {0, 5}          \* random.randint(0, 5): the extremes
Engagements == {3000, 9000}         \* random.uniform(0.3, 0.9): the extremes

\* lines 50-92; shared_connections and previous are the two random draws
calculate_relationship_score(prospect, profile, shared_connections, previous) ==
    Min(3000
        + (IF profile.stored THEN 25 * profile.trust_score ELSE 0)
        + (IF profile.stored /\ prospect.title_keyword /\ profile.headline_keyword
           THEN 1500 ELSE 0)
        + (IF shared_connections > 0 THEN 1000 * Min(shared_connections, 3) ELSE 0)
        + (IF prospect.alumni THEN 2000 ELSE 0)
        + (IF previous THEN 2000 ELSE 0),
        10000)

\* lines 122-138
calculate_story_quality(prospect, signal) ==
    Min((IF signal.kind = "none" THEN 5000 ELSE 3000 + (7 * signal.match_score) \div 10)
        + (IF prospect.senior THEN 1000 ELSE 0),
        10000)

\* lines 140-160
calculate_deliverability(prospect) ==
    Max(9000 - (IF prospect.free_domain THEN 3000 ELSE 0)
             - (IF prospect.catch_all THEN 2000 ELSE 0),
        1000)

\* lines 40-46, in millionths of a hundred points
Weighted(relationship, intent, story, deliverability, engagement) ==
    25 * relationship + 25 * intent + 20 * story + 15 * deliverability
        + 15 * engagement

\* line 48, round(trustscore, 1), in tenths of a point: the nearest tenth,
\* and either neighbour when the float lies halfway between two
round1(weighted) ==
    IF weighted % 1000 = 500
    THEN {weighted \div 1000, weighted \div 1000 + 1}
    ELSE {(weighted + 500) \div 1000}

\* lines 16-48: the scores calculate_trustscore can return; it makes its
\* own draws of shared_connections, previous and engagement
calculate_trustscore(prospect, profile, signal, now) ==
    UNION { round1(Weighted(
                calculate_relationship_score(prospect, profile, draw[1], draw[2]),
                calculate_intent_freshness(signal, now),
                calculate_story_quality(prospect, signal),
                calculate_deliverability(prospect),
                draw[3]))
            : draw \in SharedConnections \X BOOLEAN \X Engagements }

\* the signals the TrustScore is computed for: none, just now, 2 days old
TrustSignals ==
    {NoSignal} \cup {s \in Signals : /\ s.timestamp = "iso"
                                     /\ s.at \in {isoformat(clock),
                                                  isoformat(clock - 2 * SECONDS_PER_DAY)}}

\* lines 241-252
GetTrustComponents(prospect, profile, signal) ==
    /\ scoring.pc = "none"
    /\ \E shared_connections \in SharedConnections, previous \in BOOLEAN,
          engagement \in Engagements,
          total \in calculate_trustscore(prospect, profile, signal, clock) :
          scoring' =
              [pc |-> "components",
               relationship |-> calculate_relationship_score(
                                    prospect, profile, shared_connections, previous),
               intent_freshness |-> calculate_intent_freshness(signal, clock),
               story_quality |-> calculate_story_quality(prospect, signal),
               deliverability |-> calculate_deliverability(prospect),
               engagement |-> engagement,
               total |-> total]
    /\ UNCHANGED <<clock, smtp_user, queue_db, history_db, sweep, created, ledger,
                   lastSend, overlaps, response, prospects_db, request, spintax,
                   opening, combined, swept>>

\* what mock_storyscore looks at in a body
ScoredBodies ==
    [personal : BOOLEAN, value : BOOLEAN, cta : BOOLEAN, keyword : BOOLEAN,
     word_count : {20, 100, 200}]

\* lines 210-239
mock_storyscore(email_body) ==
    Min(Max(10 + (IF email_body.personal THEN 2 ELSE 0)
               + (IF email_body.value THEN 2 ELSE 0)
               + (IF email_body.cta THEN 1 ELSE 0)
               - (IF email_body.word_count > 150 THEN 2
                  ELSE IF email_body.word_count < 50 THEN 1 ELSE 0)
               + (IF email_body.keyword THEN 1 ELSE 0),
            0),
        20)

\* what the external scorer can do: be switched off (no API key), fail,
\* answer with something that is no JSON object, answer with a JSON object
\* without 'total_score', answer with a total_score
ScorerOutcomes ==
    [kind : {"no api key", "error", "not json", "no total"}, total_score : {0}]
        \cup [kind : {"total"}, total_score : {-3, 0, 15, 20, 25}]

\* lines 162-208
calculate_storyscore(email_body, scorer) ==
    CASE scorer.kind \in {"no api key", "error", "not json"} -> mock_storyscore(email_body)
      [] scorer.kind = "no total" -> 10
      [] scorer.kind = "total" -> scorer.total_score

CalculateStoryscore(email_body, scorer) ==
    /\ scoring.pc = "none"
    /\ scoring' = [pc |-> "storyscore", email_body |-> email_body, scorer |-> scorer,
                   result |-> calculate_storyscore(email_body, scorer)]
    /\ UNCHANGED <<clock, smtp_user, queue_db, history_db, sweep, created, ledger,
                   lastSend, overlaps, response, prospects_db, request, spintax,
                   opening, combined, swept>>

InitScoring ==
    QueueAtRest /\ smtp_user = "" /\ response = NoResponse /\ ElsewhereAtRest

NextScoring ==
    \/ \E signal \in Signals \cup {NoSignal} : CalculateIntentFreshness(signal)
    \/ \E prospect \in ScoredProspects, profile \in LinkedinProfiles,
          signal \in TrustSignals : GetTrustComponents(prospect, profile, signal)
    \/ \E email_body \in ScoredBodies, scorer \in ScorerOutcomes :
           CalculateStoryscore(email_body, scorer)

SpecScoring == InitScoring /\ [][NextScoring]_vars

-----------------------------------------------------------------------------
(* The cron scheduler: process_email_queue is run once in every hour, the
   runs do not overlap, and a run that has started goes through the queue
   and returns *)

SendAttempt(s) == SendFail(s) \/ \E pause \in PauseChoices : SendOk(s, pause)

\* the hour's run starts
CronLoad == AllIdle /\ ~swept /\ Load(CronJob)

\* the hour's run returns
CronFinish == Finish(CronJob) /\ swept' = TRUE

\* the next hour begins once the run has returned
CronTick == AllIdle /\ swept /\ Tick /\ swept' = FALSE

\* the web application enqueues whenever a user asks, also during a run
NextCron ==
    \/ CronTick
    \/ \E u \in Tenants, p \in Prospects, j \in JitterChoices :
           QueueEmail(u, p, j) /\ UNCHANGED response
    \/ CronLoad
    \/ VisitSkip(CronJob)
    \/ \E pause \in PauseChoices : SendOk(CronJob, pause)
    \/ SendFail(CronJob)
    \/ CronFinish

CronRuns ==
    /\ WF_vars(CronTick)
    /\ WF_vars(CronLoad)
    /\ WF_vars(VisitSkip(CronJob))
    /\ WF_vars(SendAttempt(CronJob))
    /\ WF_vars(CronFinish)

SpecCron == Init /\ [][NextCron]_vars /\ CronRuns

-----------------------------------------------------------------------------
(* Properties *)

Stored == DbEntries(queue_db) \cup DbEntries(history_db)
Local(s) == DbEntries(sweep[s].queue) \cup DbEntries(sweep[s].history)
Everywhere == Stored \cup UNION {Local(s) : s \in Sweepers}
Messages == 1..created
InQueue(n) == \E e \in DbEntries(queue_db) : e.seq = n
InHistory(n) == \E e \in DbEntries(history_db) : e.seq = n
Attempted == lastSend.seq # 0

\* C1: a message's status only ever goes Queued->Sent or Queued->Failed, a
\* failed attempt leaves it Queued exactly when its attempts are still below
\* 3, and once it is Sent or Failed nothing about it changes again: its
\* status stays and no further send is attempted.
C1_StatusTransitions ==
    [][\A n \in Messages :
         LET old == ledger[n]
             new == ledger'[n]
         IN /\ old.status # new.status =>
                   old.status = "queued" /\ new.status \in {"sent", "failed"}
            /\ old.status \in {"sent", "failed"} => new = old
            /\ new.ok = old.ok + 1 => new.status = "sent"
            /\ new.fail = old.fail + 1 =>
                   /\ new.attempts < 3 => new.status = "queued"
                   /\ new.attempts >= 3 => new.status = "failed"]_vars

\* C1 witness: a message has failed for good, another has been sent, and a
\* later sweep is running
C1_Witness ==
    /\ \E n \in Messages : ledger[n].status = "failed"
    /\ \E n \in Messages : ledger[n].status = "sent"
    /\ sweep[CronJob].pc = "loop"
    /\ ~Attempted

\* C2: every copy of every message has 0 <= attempts <= 3, the attempts of a
\* message never decrease in a step, and a message is Failed exactly when 3
\* of its send attempts have failed.
C2_AttemptsBounded ==
    [][/\ \A e \in Everywhere : e.attempts \in 0..3
       /\ \A n \in Messages :
            /\ ledger[n].attempts <= ledger'[n].attempts
            /\ ledger'[n].attempts \in 0..3
            /\ ledger'[n].status = "failed" <=> ledger'[n].fail = 3]_vars

\* C2 witness: one message failed three times, another was sent after it had
\* failed twice
C2_Witness ==
    /\ \E n \in Messages : ledger[n].status = "failed" /\ ledger[n].fail = 3
    /\ \E n \in Messages : ledger[n].status = "sent" /\ ledger[n].fail = 2

\* C3: after the sweep in which a message's third attempt failed, the
\* message is Failed, its record is in the tenant's history, and it is not in
\* the active queue.
C3_FailedIsArchived ==
    \A n \in Messages :
        (AllIdle /\ ledger[n].status = "failed") =>
            /\ \E e \in DbEntries(history_db) : e.seq = n /\ e.status = "failed"
            /\ ~InQueue(n)

\* C4: in every persisted state every message ever enqueued is held by the
\* active queue or by the history, and never by both.
C4_ExactlyOneOwner ==
    AllIdle => \A n \in Messages : InQueue(n) # InHistory(n)

\* C5: no message is successfully sent more than once, and every stored copy
\* of a message still waiting carries all of its failed attempts, also when
\* sweeps overlap.
C5_NoDoubleSendNoLostRetry ==
    /\ \A n \in Messages : ledger[n].ok <= 1
    /\ AllIdle => \A e \in DbEntries(queue_db) : e.attempts = ledger[e.seq].fail

\* C6: a failed attempt that leaves attempts below 3 keeps the message
\* Queued and schedules it 60 minutes after the time of the failure.
C6_RetrySixtyMinutesAfterFailure ==
    (Attempted /\ ~lastSend.ok /\ lastSend.after.attempts < 3) =>
        /\ lastSend.after.status = "queued"
        /\ fromisoformat(lastSend.after.scheduled_for) = lastSend.at + 60 * 60

\* C7: a successful send makes the message Sent, stamps sent_at with the
\* time of the send, and appends the record to the tenant's history.
C7_SentAtIsSendTime ==
    (Attempted /\ lastSend.ok) =>
        /\ lastSend.after.status = "sent"
        /\ fromisoformat(lastSend.after.sent_at) = lastSend.at
        /\ \E s \in Sweepers : lastSend.after \in DbEntries(sweep[s].history)

\* C8: a queue_email call at time t0 appends one entry to its tenant's
\* active queue, Queued with attempts 0, queued_at = t0 and scheduled_for
\* between t0 + 5 min and t0 + 30 min, and changes nothing else.
C8_EnqueueAddsOne ==
    [][created' = created + 1 =>
         \E u \in Tenants :
            LET old == queue_db.rows[u]
                new == queue_db'.rows[u]
                e == new[Len(new)]
            IN /\ Len(new) = Len(old) + 1
               /\ SubSeq(new, 1, Len(old)) = old
               /\ e.status = "queued"
               /\ e.attempts = 0
               /\ fromisoformat(e.queued_at) = clock
               /\ fromisoformat(e.scheduled_for) >= clock + 5 * 60
               /\ fromisoformat(e.scheduled_for) <= clock + 30 * 60
               /\ fromisoformat(e.scheduled_for) >= fromisoformat(e.queued_at)
               /\ \A v \in Tenants \ {u} : queue_db'.rows[v] = queue_db.rows[v]
               /\ history_db' = history_db]_vars

\* C8 witness: a tenant's queue holds two entries, the second enqueued later
\* than the first and scheduled 30 minutes after it was queued
C8_Witness ==
    \E u \in Tenants :
        /\ Len(queue_db.rows[u]) = 2
        /\ fromisoformat(queue_db.rows[u][2].queued_at) >
               fromisoformat(queue_db.rows[u][1].queued_at)
        /\ fromisoformat(queue_db.rows[u][2].scheduled_for) =
               fromisoformat(queue_db.rows[u][2].queued_at) + 30 * 60

\* C9: no two stored messages share an id.
C9_UniqueIds ==
    \A e1, e2 \in Stored : e1.seq # e2.seq => e1.id # e2.id

\* C10: whatever a sweep attempts was Queued and scheduled no later than the
\* time of the attempt, and once the sweep has passed an entry, that entry is
\* not left Queued with a scheduled_for at or before the sweep's time.
C10_AttemptsExactlyTheDue ==
    /\ Attempted =>
          /\ lastSend.before.status = "queued"
          /\ fromisoformat(lastSend.before.scheduled_for) <= lastSend.current_time
          /\ lastSend.current_time <= lastSend.at
    /\ \A s \in Sweepers :
          sweep[s].pc = "loop" =>
             \A k \in 1..(sweep[s].pos - 1) :
                LET at == Items(sweep[s].queue, 1)[k]
                    e == sweep[s].queue.rows[at[1]][at[2]]
                IN ~(/\ e.status = "queued"
                     /\ fromisoformat(e.scheduled_for) <= sweep[s].current_time)

\* C10 witness: in one sweep an entry scheduled for later was passed over
\* and a due entry was attempted
C10_Witness ==
    /\ Attempted
    /\ \E e \in DbEntries(sweep[CronJob].queue) :
          /\ e.status = "queued"
          /\ e.attempts = 0
          /\ fromisoformat(e.scheduled_for) > sweep[CronJob].current_time
    /\ sweep[CronJob].pos > Len(Items(sweep[CronJob].queue, 1))

\* C11: after a completed sweep no active queue holds a Sent or Failed
\* entry, and every entry the pruning is about to remove is already in the
\* history that the sweep saves.
C11_PruningLosesNothing ==
    /\ AllIdle => \A e \in DbEntries(queue_db) : e.status \notin {"sent", "failed"}
    /\ \A s \in Sweepers :
          (sweep[s].pc = "loop" /\ sweep[s].pos > Len(Items(sweep[s].queue, 1))) =>
             \A e \in DbEntries(sweep[s].queue) :
                e.status \in {"sent", "failed"} => e \in DbEntries(sweep[s].history)

\* a message whose send failed in the sweep s: its copy in the sweep has
\* more attempts than the copy in the file
FailedIn(s) ==
    {n \in Messages : \E old \in DbEntries(queue_db), new \in DbEntries(sweep[s].queue) :
        old.seq = n /\ new.seq = n /\ new.attempts > old.attempts}

\* C12: when the loop of a sweep ends, every entry that was Queued and due
\* when the sweep began has been attempted (it is Sent, or has one more
\* attempt), whatever failed before it; and between sweeps the files hold
\* the outcome: every failed attempt is counted in the stored entry and
\* every Sent message is in history.
C12_FailureDoesNotEndSweep ==
    /\ \A s \in Sweepers :
          (sweep[s].pc = "loop" /\ sweep[s].pos > Len(Items(sweep[s].queue, 1))) =>
             \A u \in Tenants : \A i \in 1..Len(queue_db.rows[u]) :
                LET old == queue_db.rows[u][i]
                    new == sweep[s].queue.rows[u][i]
                IN (old.status = "queued" /\
                    fromisoformat(old.scheduled_for) <= sweep[s].current_time) =>
                       \/ new.status = "sent"
                       \/ new.attempts = old.attempts + 1
    /\ AllIdle =>
          /\ \A e \in DbEntries(queue_db) : e.attempts = ledger[e.seq].fail
          /\ \A n \in Messages : ledger[n].status = "sent" => InHistory(n)

\* C12 witness: a sweep has reached its end after a send failed and a send
\* attempted later, for another tenant, succeeded
C12_Witness ==
    /\ sweep[CronJob].pc = "loop"
    /\ sweep[CronJob].pos > Len(Items(sweep[CronJob].queue, 1))
    /\ lastSend.ok
    /\ \E n \in FailedIn(CronJob) : ledger[n].user_id # ledger[lastSend.seq].user_id

\* C14: between calls, get_queue_status reports for each tenant the number
\* of its messages that are Queued, that ended Failed, and that were Sent.
C14_StatusCountsMessages ==
    AllIdle => \A u \in Tenants :
        LET of(st) == Cardinality({n \in Messages :
                          ledger[n].user_id = u /\ ledger[n].status = st})
        IN /\ GetQueueStatus(u).queued = of("queued")
           /\ GetQueueStatus(u).failed = of("failed")
           /\ GetQueueStatus(u).total_sent = of("sent")

\* C13: send_email adds a message to the queue only when the spam score of
\* its subject and body is at most 5.0 (10 half points); a request whose
\* score is above 5.0 is answered with the error "Spam score too high" and
\* changes neither the active queue nor the history.
C13_SpamGate ==
    [][ /\ queue_db' # queue_db =>
              /\ response'.success
              /\ response'.spam_score <= 2 * SPAM_THRESHOLD
        /\ response'.spam_score > 2 * SPAM_THRESHOLD =>
              /\ ~response'.success
              /\ response'.error = "Spam score too high"
              /\ UNCHANGED <<queue_db, history_db>> ]_vars

\* C13 witness: with a message already queued, a request scoring 5.5 has
\* been rejected
C13_Witness ==
    /\ created > 0
    /\ response.error = "Spam score too high"
    /\ response.spam_score = 11

\* C15: whenever a call of add_prospect returns, it has accepted the
\* prospect exactly when no prospect with that email was stored for that
\* tenant at that moment (so a call made while the email is stored is
\* rejected, and the same email under another tenant is accepted), and no
\* tenant's list ever holds two prospects with the same email.
C15_DuplicateEmailRejected ==
    [][ /\ \A w \in Workers :
              (request[w].pc = "loaded" /\ request'[w].pc = "returned") =>
                  (request'[w].result <=>
                      ~IsDuplicate(prospects_db, request[w].user_id, request[w].email))
        /\ \A u \in Tenants :
              Cardinality(existing_emails(prospects_db', u)) = Len(prospects_db'[u])
      ]_vars

\* C16: process_spintax returns for every pattern (the while loop never
\* runs forever), the text it returns contains no alternative group, and
\* a text without any group, such as a {word} that is no variable, is
\* returned as it is.
C16_TerminatesWithoutGroups ==
    /\ spintax.pc # "looping forever"
    /\ spintax.pc = "returned" => ~HasGroup(spintax.text)
    /\ (spintax.pc = "returned" /\ ~HasGroup(spintax.replaced)) =>
           spintax.text = spintax.replaced

\* the declared alternatives of a group: the stretches of its content that
\* run from the start or from a "|" to the next "|" or to the end
Alternatives(content) ==
    {SubSeq(content, a, b) : <<a, b>> \in
        {ab \in (1..(Len(content) + 1)) \X (0..Len(content)) :
            /\ ab[2] >= ab[1] - 1
            /\ ab[1] = 1 \/ content[ab[1] - 1] = "|"
            /\ ab[2] = Len(content) \/ content[ab[2] + 1] = "|"
            /\ \A k \in ab[1]..ab[2] : content[k] # "|"}}

RECURSIVE IsExpansion(_, _)
\* result is text with one declared alternative in the place of each of its
\* groups and everything else as it was
IsExpansion(text, result) ==
    IF text = <<>> THEN result = <<>>
    ELSE IF MatchEnd(text, 1) # 0
         THEN \E alt \in Alternatives(SubSeq(text, 2, MatchEnd(text, 1) - 1)) :
                 /\ Len(alt) <= Len(result)
                 /\ SubSeq(result, 1, Len(alt)) = alt
                 /\ IsExpansion(SubSeq(text, MatchEnd(text, 1) + 1, Len(text)),
                                SubSeq(result, Len(alt) + 1, Len(result)))
         ELSE /\ result # <<>>
              /\ result[1] = text[1]
              /\ IsExpansion(Tail(text), Tail(result))

Alice == << <<"name", <<"Alice">>>> >>
GladToConnect == <<"Hi ", "Alice", ", ", "glad", " to connect">>
HappyToConnect == <<"Hi ", "Alice", ", ", "happy", " to connect">>

\* C17: every turn of the loop puts one declared alternative in the place
\* of each group of the text and changes nothing else, and the call on
\* "Hi {name}, {glad|happy} to connect" with name=Alice returns
\* "Hi Alice, glad to connect" or "Hi Alice, happy to connect".
C17_OneAlternativePerGroup ==
    [][ /\ (spintax.pc = "loop" /\ spintax'.pc = "loop") =>
               IsExpansion(spintax.text, spintax'.text)
        /\ (spintax.pc = "loop" /\ spintax'.pc = "returned") =>
               /\ spintax'.text = spintax.text
               /\ (spintax.template = ScenarioA /\ spintax.variables = Alice) =>
                      spintax'.text \in {GladToConnect, HappyToConnect}
      ]_vars

\* C17 witness: the call of Scenario A has returned the second alternative
C17_Witness ==
    /\ spintax.pc = "returned"
    /\ spintax.template = ScenarioA
    /\ spintax.variables = Alice
    /\ spintax.passes = 1
    /\ spintax.text = HappyToConnect

Value(variables, key) ==
    (CHOOSE n \in 1..Len(variables) : variables[n][1] = key)

RECURSIVE SinglePass(_, _)
\* every {key} of the text replaced by the value of key, the values
\* themselves left as they are
SinglePass(text, variables) ==
    IF text = <<>> THEN <<>>
    ELSE IF /\ Len(text) >= 3
            /\ text[1] = "{"
            /\ text[3] = "}"
            /\ \E n \in 1..Len(variables) : variables[n][1] = text[2]
         THEN variables[Value(variables, text[2])][2]
                  \o SinglePass(SubSeq(text, 4, Len(text)), variables)
         ELSE <<text[1]>> \o SinglePass(Tail(text), variables)

\* C18: the text that process_spintax passes on to the expansion of groups
\* is the pattern with every {key} replaced by its value in a single pass:
\* a value is never searched for further keys, in whatever order the
\* variables are supplied.
C18_SubstitutionIsSinglePass ==
    spintax.pc # "none" =>
        spintax.replaced = SinglePass(spintax.template, spintax.variables)

\* the anchor categories that a text takes a name from
CategoriesUsed(text, anchors) ==
    {c \in {"company", "school", "interests"} : Range(anchors[c]) \cap Range(text) # {}}

\* C19: the opening takes its name from exactly one category, the first of
\* company, school and interests whose anchor list is not empty, and it is
\* the first anchor of that list; with no anchor at all it names no anchor
\* and refers to the prospect's company.  So with a company anchor the
\* opening names the company anchor and no school or interest anchor.
C19_OneAnchorByPriority ==
    opening.pc = "returned" =>
        LET a == opening.anchors
            used == CategoriesUsed(opening.text, a)
        IN /\ a.company # <<>> =>
                 used = {"company"} /\ a.company[1] \in Range(opening.text)
           /\ (a.company = <<>> /\ a.school # <<>>) =>
                 used = {"school"} /\ a.school[1] \in Range(opening.text)
           /\ (a.company = <<>> /\ a.school = <<>> /\ a.interests # <<>>) =>
                 used = {"interests"} /\ a.interests[1] \in Range(opening.text)
           /\ (a.company = <<>> /\ a.school = <<>> /\ a.interests = <<>>) =>
                 /\ used = {}
                 /\ Range(CompanyOf(opening.prospect)) \subseteq Range(opening.text)

\* C19 witness: an opening made with a company anchor, two school anchors
\* and an interest anchor at hand
C19_Witness ==
    /\ opening.pc = "returned"
    /\ opening.anchors.company = <<"Initech", "Acme">>
    /\ Len(opening.anchors.school) = 2
    /\ opening.anchors.interests # <<>>
    /\ "Initech" \in Range(opening.text)

IsInfix(part, text) ==
    \E n \in 0..(Len(text) - Len(part)) : SubSeq(text, n + 1, n + Len(part)) = part

Occurrences(piece, text) == Cardinality({n \in 1..Len(text) : text[n] = piece})

\* the number of outcome sentences in the body of the k-th email
Appended(k) == Occurrences("The path to ", combined.sequence[k].body)

\* the opening is in the first email of the returned sequence and in no other
OpeningInStepOneOnly ==
    \A k \in 1..Len(combined.sequence) :
        IsInfix(Greeting(combined.prospect) \o combined.opening,
                combined.sequence[k].body) <=> k = 1

\* the body of the k-th email before an outcome is added to it
BodyBefore(k) ==
    StoryBody(k, combined.prospect) \o (IF k = 1 THEN combined.opening ELSE <<>>)

\* C20 as stated: the opening goes into step 1 only, and every email of the
\* returned sequence has exactly one outcome sentence, with a phrase of the
\* vocabulary that was not in its body, right before its closing.
C20_EveryStepGetsOneOutcome ==
    combined.pc = "returned" =>
        /\ OpeningInStepOneOnly
        /\ \A k \in 1..Len(combined.sequence) :
              /\ Appended(k) = 1
              /\ \E outcome \in Range(executive_outcomes) :
                    /\ outcome \notin Range(BodyBefore(k))
                    /\ IsInfix(<<"The path to ", outcome, " is clear.">> \o Closing,
                               combined.sequence[k].body)

\* C20, amended: the opening goes into step 1 only; an email gets the
\* outcome sentence, with the phrase chosen for it and right before its
\* closing, exactly when that phrase was not yet in its body, and gets
\* nothing otherwise: so every email has at most one outcome sentence and
\* no phrase twice because of it.
C20_OutcomeUnlessPresent ==
    combined.pc = "returned" =>
        /\ OpeningInStepOneOnly
        /\ \A k \in 1..Len(combined.sequence) :
              LET body == combined.sequence[k].body
                  outcome == combined.chosen[k]
              IN /\ outcome \in Range(executive_outcomes)
                 /\ Appended(k) <= 1
                 /\ Appended(k) = 1 <=> outcome \notin Range(BodyBefore(k))
                 /\ Appended(k) = 1 =>
                       /\ IsInfix(<<"The path to ", outcome, " is clear.">> \o Closing, body)
                       /\ Occurrences(outcome, body) = 1
                 /\ Appended(k) = 0 =>
                       body = (IF k = 1
                               THEN AddOpening(StoryBody(k, combined.prospect),
                                               combined.prospect, combined.opening)
                               ELSE StoryBody(k, combined.prospect))

\* C20 witness: a returned sequence whose first email got an outcome
\* sentence and whose second email, for which "faster releases" was chosen,
\* got none
C20_Witness ==
    /\ combined.pc = "returned"
    /\ Appended(1) = 1
    /\ combined.chosen[2] = "faster releases"
    /\ Appended(2) = 0

\* C21: a call of regenerate_step with a step number outside 1..7 ends in
\* the ValueError and changes nothing (no file, no queue, nothing of the
\* other components); a call with a step number in 1..7 returns the story
\* email of that step, which is the email of no other step.
C21_RegenerateStepValidates ==
    [][ combined'.pc = "regenerated" =>
          LET n == combined'.step_number
              p == combined'.prospect
          IN /\ n \notin 1..7 =>
                   /\ combined'.result = ValueError
                   /\ UNCHANGED <<clock, smtp_user, queue_db, history_db, sweep,
                                  created, ledger, lastSend, overlaps, response,
                                  scoring, prospects_db, request, spintax, opening>>
             /\ n \in 1..7 =>
                   /\ combined'.result.subject = StorySubject(n, p)
                   /\ combined'.result.body = StoryBody(n, p)
                   /\ \A k \in 1..Len(story_steps) :
                         combined'.result.subject = StorySubject(k, p) => k = n
      ]_vars

\* C21 witness: step 7 was asked for and its email returned
C21_Witness ==
    /\ combined.pc = "regenerated"
    /\ combined.step_number = 7
    /\ combined.result = StoryEmail(7, combined.prospect)

\* the age of a signal in whole days: the number of complete days between
\* its timestamp and now
WholeDays(signal, now) ==
    CHOOSE d \in -2..500 :
        /\ d * SECONDS_PER_DAY <= now - fromisoformat(signal.at)
        /\ now - fromisoformat(signal.at) < (d + 1) * SECONDS_PER_DAY

\* the table of the claim, in ten-thousandths
FreshnessTable(age) ==
    CASE age <= 1 -> 10000
      [] age > 1 /\ age <= 3 -> 9000
      [] age > 3 /\ age <= 7 -> 7000
      [] age > 7 /\ age <= 14 -> 5000
      [] age > 14 /\ age <= 30 -> 3000
      [] age > 30 -> 1000

\* C26: calculate_intent_freshness returns 0.2 without a signal, 0.3 for a
\* timestamp that cannot be parsed, and otherwise the value of the table
\* for the signal's age in whole days; a signal stamped exactly 2 days
\* before now gets 0.9.
C26_FreshnessIsStepFunction ==
    scoring.pc = "freshness" =>
        LET signal == scoring.signal
        IN /\ signal.kind = "none" => scoring.result = 2000
           /\ (signal.kind = "signal" /\ signal.timestamp # "iso") => scoring.result = 3000
           /\ (signal.kind = "signal" /\ signal.timestamp = "iso") =>
                 /\ scoring.result = FreshnessTable(WholeDays(signal, scoring.now))
                 /\ signal.at = isoformat(scoring.now - 2 * SECONDS_PER_DAY) =>
                       scoring.result = 9000

\* C26 witness: the freshness of a signal stamped exactly 2 days ago has
\* been computed
C26_Witness ==
    /\ scoring.pc = "freshness"
    /\ scoring.signal.kind = "signal"
    /\ scoring.signal.timestamp = "iso"
    /\ scoring.signal.at = isoformat(scoring.now - 2 * SECONDS_PER_DAY)
    /\ scoring.result = 9000

\* C22: in a breakdown returned by get_trust_components, total is the
\* weighted sum 100*(0.25*relationship + 0.25*intent_freshness +
\* 0.20*story_quality + 0.15*deliverability + 0.15*engagement) of the five
\* components of that same breakdown (up to the rounding to one decimal),
\* and the weights add up to 1.
C22_TotalIsWeightedSumOfComponents ==
    scoring.pc = "components" =>
        /\ Weighted(1, 1, 1, 1, 1) = 100
        /\ 1000 * scoring.total
              - Weighted(scoring.relationship, scoring.intent_freshness,
                         scoring.story_quality, scoring.deliverability,
                         scoring.engagement) \in -500..500

\* C23: calculate_storyscore returns a score in 0..20 whatever the external
\* scorer does, and the score of mock_storyscore when the scorer is
\* switched off or fails.
C23_StoryscoreInRange ==
    scoring.pc = "storyscore" =>
        /\ scoring.result \in 0..20
        /\ scoring.scorer.kind \in {"no api key", "error", "not json"} =>
               scoring.result = mock_storyscore(scoring.email_body)

\* C24: check_spam_score returns a score for every subject and body: a
\* request with an empty body is answered from a computed score and never
\* ends in a division fault.
C24_EmptyBodyIsScored ==
    response.error # "ZeroDivisionError"

IsPrefix(old, new) == Len(old) <= Len(new) /\ SubSeq(new, 1, Len(old)) = old

\* C25: history only grows: whatever step is taken, by whatever
\* interleaving of queue_email and process_queue calls, every tenant's
\* history afterwards begins with its history before, records unchanged.
C25_HistoryAppendOnly ==
    [][ \A u \in Tenants : IsPrefix(history_db.rows[u], history_db'.rows[u]) ]_vars

\* C27: with no two sweeps overlapping, whatever queue_email calls were
\* made while a sweep was in progress, after the sweep every message that
\* has not reached Sent or Failed is in the active queue as Queued, and no
\* message that is in history is in the active queue.
C27_EnqueueDuringSweepIsKept ==
    (AllIdle /\ overlaps = 0) =>
        \A n \in Messages :
            /\ ledger[n].status = "queued" =>
                   \E e \in DbEntries(queue_db) : e.seq = n /\ e.status = "queued"
            /\ InHistory(n) => ~InQueue(n)

\* a message has reached its terminal state in the way the claim describes
SentOnce(n) ==
    /\ n \in Messages
    /\ ledger[n].status = "sent"
    /\ ledger[n].ok = 1
FailedAfterThree(n) ==
    /\ n \in Messages
    /\ ledger[n].status = "failed"
    /\ ledger[n].ok = 0
    /\ ledger[n].fail = MAX_ATTEMPTS

\* at least MAX_ATTEMPTS runs of the cron job are still to come
RunsLeft == clock \div CronPeriod + MAX_ATTEMPTS <= MaxHours

\* C28: while the cron job keeps running every hour, every enqueued message
\* that still has three runs ahead of it ends up Sent after exactly one
\* successful attempt or Failed after exactly three failed attempts and no
\* successful one, whether the transport succeeds or fails.
C28_EventuallyTerminal ==
    \A n \in 1..MaxEmails :
        (created >= n /\ RunsLeft) ~> (SentOnce(n) \/ FailedAfterThree(n))

\* C29: while a sweep is running, every message of the stored queue has been
\* attempted at most once in it: its attempts are at most one above the
\* attempts stored before the sweep, and it is Failed only if two earlier
\* sweeps had each left it with one more failed attempt.
C29_OneAttemptPerSweep ==
    sweep[CronJob].pc = "loop" =>
        \A e \in DbEntries(queue_db) :
            LET l == ledger[e.seq]
            IN /\ l.attempts <= e.attempts + 1
               /\ l.ok + l.fail <= e.attempts + 1
               /\ l.status = "failed" => e.attempts = MAX_ATTEMPTS - 1

\* C29 witness: in one sweep a message has failed for the third time and
\* another has failed for the first time, and the sweep is past both
C29_Witness ==
    /\ sweep[CronJob].pc = "loop"
    /\ ~InLoop(CronJob)
    /\ \E e \in DbEntries(queue_db) :
           /\ e.attempts = MAX_ATTEMPTS - 1
           /\ ledger[e.seq].status = "failed"
    /\ \E e \in DbEntries(queue_db) :
           /\ e.attempts = 0
           /\ ledger[e.seq].fail = 1
           /\ ledger[e.seq].status = "queued"

\* a step in which _send_email is called and returns ok
SendStep(ok) ==
    /\ lastSend' # lastSend
    /\ lastSend'.seq # 0
    /\ lastSend'.ok = ok

\* C30: a successful send moves the clock on by a pause of 45 to 90 seconds
\* in the same step, before anything else happens; a failed send leaves the
\* clock as it is; so every send that follows a successful send in a sweep,
\* of whichever tenant, comes at least 45 seconds after it.
C30_PauseAfterEverySuccess ==
    [][/\ SendStep(TRUE) =>
              clock' - clock \in MIN_PAUSE_SECONDS..MAX_PAUSE_SECONDS
       /\ SendStep(FALSE) => clock' = clock
       /\ (SendStep(TRUE) \/ SendStep(FALSE)) /\ Attempted /\ lastSend.ok =>
              lastSend'.at >= lastSend.at + MIN_PAUSE_SECONDS]_vars

\* C30 witness: in one sweep a message of one tenant was sent; the send of
\* another tenant's message came after the pause and failed, and the clock
\* has not moved since
C30_Witness ==
    /\ sweep[CronJob].pc = "loop"
    /\ sweep[CronJob].emails_sent = 1
    /\ Attempted
    /\ ~lastSend.ok
    /\ lastSend.at >= sweep[CronJob].current_time + MIN_PAUSE_SECONDS
    /\ lastSend.at = clock
    /\ \E n \in Messages :
           /\ SentOnce(n)
           /\ ledger[n].user_id # ledger[lastSend.seq].user_id

====
